---- MODULE Spec2Model ----
(***************************************************************************)
(* Model of the wa-notifier ingestion pipeline: the /webhook endpoint      *)
(* (src/src/api/webhook.py), the request-scoped database session           *)
(* (src/src/api/deps.py), MessageHandler (src/src/handler/__init__.py),    *)
(* BaseHandler.store_message (src/src/handler/base_handler.py) and         *)
(* should_notify (src/src/handler/relevance_checker.py).                   *)
(*                                                                         *)
(* Every webhook delivery is a task; a task yields at each await (storage  *)
(* read or write, classifier call, notification POST), so each action      *)
(* below is the code between two awaits.  The database is the committed    *)
(* rows plus, per session, the rows its open transaction has written.      *)
(***************************************************************************)
EXTENDS Integers, Sequences, FiniteSets, TLC

\* ------------------------------------------------------------------ bounds
NumTasks == 2

\* ------------------------------------------------------- program constants
FreshnessDays == 4
MinWords == 2

Tasks == 1..NumTasks

\* Optional values: None is the empty tuple, Some(x) a one-element tuple.
None == <<>>
Some(x) == <<x>>
Val(o) == o[1]

\* ------------------------------------------------------------ JID utilities
\* user[:device]@server ; device 0 stands for "no device part".
JID(u, d, s) == [user |-> u, device |-> d, server |-> s]
GroupServer == "g.us"
UserServer == "s.whatsapp.net"

is_group(jid) == jid.server = GroupServer

to_non_ad(jid) == [jid EXCEPT !.device = 0]

normalize_jid(jid) == to_non_ad(jid)

\* ------------------------------------------------------------------- texts
\* A text is a sequence of characters; " " is whitespace.
RECURSIVE split(_)
split(text) ==
    IF text = <<>> THEN <<>>
    ELSE IF Head(text) = " " THEN split(Tail(text))
    ELSE LET rest == split(Tail(text))
         IN  IF Len(text) > 1 /\ text[2] # " "
             THEN <<(<<Head(text)>> \o Head(rest))>> \o Tail(rest)
             ELSE <<(<<Head(text)>>)>> \o rest

word_count(text) == Len(split(text))

ThreeWords == <<"a", " ", "b", " ", "c">>
PaddedThreeWords == <<" ", "a", " ", " ", "b", "c", " ", "d", " ">>
TwoWords == <<"h", "i", " ", "y", "o">>
PaddedTwoWords == <<" ", "h", "i", " ", " ", "y", " ">>
Blank == <<" ">>
EmptyText == <<>>

\* ---------------------------------------------------------------- payloads
Body(id, text, ctx) == [id |-> id, text |-> text, context_info |-> ctx]

Payload(from, age, pushname, message, subject) ==
    [from_ |-> from, age |-> age, pushname |-> pushname,
     message |-> message, group_subject |-> subject]

Alice16 == JID("111", 16, UserServer)
Alice == JID("111", 0, UserServer)
Bob == JID("112", 0, UserServer)
Group222 == JID("222", 0, GroupServer)
Group222Dev == JID("222", 3, GroupServer)
Group333 == JID("333", 0, GroupServer)
Group444 == JID("444", 0, GroupServer)

\* Scenario A of the specification: a fresh group message.
PayloadA ==
    Payload(<<Alice16, Group222>>, 0, Some("Alice"),
            Some(Body("M1", Some(ThreeWords), Some([group_subject |-> Some("Nested")]))),
            Some("Devs"))
\* A message of another sender in the same group.
PayloadB ==
    Payload(<<Bob, Group222Dev>>, FreshnessDays, Some("Bob"),
            Some(Body("M2", Some(PaddedThreeWords), Some([group_subject |-> Some("Nested")]))),
            None)
\* A direct (1:1) message of the first sender, from another device.
PayloadDirect ==
    Payload(<<Alice>>, 0, Some("Al"),
            Some(Body("M3", Some(ThreeWords), None)), None)
\* A message of another group.
PayloadOther ==
    Payload(<<Alice, Group333>>, 0, None,
            Some(Body("M4", Some(ThreeWords), Some([group_subject |-> None]))), None)
PayloadStale == [PayloadA EXCEPT !.age = FreshnessDays + 1]
PayloadNoBody == [PayloadA EXCEPT !.message = None]
PayloadNoText == [PayloadA EXCEPT !.message = Some(Body("M1", None, None))]
PayloadEmptyText == [PayloadA EXCEPT !.message = Some(Body("M1", Some(EmptyText), None))]
PayloadBlank == [PayloadA EXCEPT !.message = Some(Body("M1", Some(Blank), None))]
PayloadShort == [PayloadA EXCEPT !.message = Some(Body("M1", Some(TwoWords), None))]
PayloadShortPadded == [PayloadA EXCEPT !.message = Some(Body("M1", Some(PaddedTwoWords), None))]
PayloadNoFrom == [PayloadA EXCEPT !.from_ = <<>>]
PayloadStaleNoBody == [PayloadNoBody EXCEPT !.age = FreshnessDays + 1]

\* Group messages that differ in where the group's name is found: an empty
\* top-level subject over a nested one, and no subject and no context info.
PayloadEmptySubject ==
    Payload(<<Bob, Group333>>, 0, Some("Bob"),
            Some(Body("M5", Some(ThreeWords), Some([group_subject |-> Some("Nested")]))),
            Some(""))
PayloadNoContext ==
    Payload(<<Bob, Group444>>, 0, Some("Bob"),
            Some(Body("M6", Some(ThreeWords), None)), None)

\* The payloads a delivery may carry.
PayloadSeq ==
    <<PayloadA, PayloadB, PayloadDirect, PayloadOther, PayloadStale, PayloadNoBody,
      PayloadNoText, PayloadEmptyText, PayloadBlank, PayloadShort, PayloadShortPadded,
      PayloadNoFrom, PayloadStaleNoBody>>

\* Deliveries are interchangeable, so they are numbered by payload: the
\* deliveries of one payload are numbered in their order of arrival.
Deliveries ==
    {d \in [Tasks -> 1..Len(PayloadSeq)] : \A t, u \in Tasks : t < u => d[t] <= d[u]}

\* The payloads of the deliveries that create Groups.
NamePayloads == <<PayloadA, PayloadOther, PayloadEmptySubject, PayloadNoContext>>

\* The payloads of the deliveries that meet the filter chain: one message that
\* passes, at the edge of the freshness window, and the ones that do not.
IngestPayloads ==
    <<PayloadB, PayloadStale, PayloadNoBody, PayloadNoText, PayloadEmptyText,
      PayloadBlank, PayloadShort, PayloadShortPadded, PayloadNoFrom, PayloadStaleNoBody>>

\* The payloads of the deliveries that reach the handler.
HandledPayloads == <<PayloadA, PayloadB, PayloadDirect, PayloadOther>>

\* The payloads of the deliveries that race for the same Sender, Group and
\* Message rows.
StoragePayloads == <<PayloadA, PayloadB, PayloadDirect>>

\* The payloads of the deliveries followed to their end under fair scheduling:
\* one per way of ending (classified, stored, out of scope, filtered out).
FairPayloads == <<PayloadA, PayloadDirect, PayloadOther, PayloadStale>>

\* The payloads of the deliveries whose end is looked at.
LifecyclePayloads == <<PayloadA, PayloadDirect, PayloadOther, PayloadNoFrom>>

\* Deliveries of the payloads of `seq`, numbered as in Deliveries.
DeliveriesOf(seq) ==
    {d \in [Tasks -> 1..Len(seq)] : \A t, u \in Tasks : t < u => d[t] <= d[u]}

\* ------------------------------------------------------------------ state
VARIABLES
    limit_to_group_id,  \* Settings.limit_to_group_id (None or a canonical group jid)
    notification_chain, \* TRUE iff the classifier client was constructed
    senders,            \* committed Sender rows
    groups,             \* committed Group rows
    messages,           \* committed Message rows
    tx,                 \* per task: rows written by the session's open transaction
    pc,                 \* per task: position in webhook / handler
    payload,            \* per task: the delivered payload
    message,            \* per task: the handler's in-memory Message object
    group,              \* per task: the Group relation loaded by session.refresh
    decision,           \* per task: the tuple should_notify returned
    response,           \* per task: "none", "ok" or "error"
    outcome,            \* per task: how the delivery ended
    calls               \* per task: which collaborators it invoked

vars == <<limit_to_group_id, notification_chain, senders, groups, messages, tx,
          pc, payload, message, group, decision, response, outcome, calls>>

EmptyTx == [senders |-> {}, groups |-> {}, messages |-> {}]
NoCalls == [handler |-> FALSE, lookup |-> FALSE, stored_at_lookup |-> FALSE, store |-> FALSE, classifier |-> FALSE,
            should_notify |-> FALSE, chain_error |-> FALSE, post |-> None, writes |-> 0]
NoDecision == [should_notify |-> FALSE, reasoning |-> "", total_tokens |-> None,
               input_tokens |-> None, output_tokens |-> None, raised |-> FALSE]
NoMessage == [message_id |-> "", text |-> None, chat_jid |-> Alice, sender_jid |-> Alice,
              group_jid |-> None, is_relevant |-> None, reasoning |-> None,
              relevancy_total_token_count |-> None, relevancy_input_tokens |-> None,
              relevancy_output_tokens |-> None]

\* ---------------------------------------------------------------- storage
\* The primary key of a row of a table.
pk(table, row) ==
    CASE table = "senders" -> row.jid
      [] table = "groups" -> row.group_jid
      [] table = "messages" -> row.message_id

\* What a session reads: its own uncommitted rows shadow the committed ones.
Visible(table, committed, own) ==
    own \cup {r \in committed : \A o \in own : pk(table, o) # pk(table, r)}

\* session.get(Model, key): the row with that primary key, or None.
session_get(table, rows, key) ==
    LET hit == {r \in rows : pk(table, r) = key}
    IN  IF hit = {} THEN None ELSE Some(CHOOSE r \in hit : TRUE)

\* A row lock that is still held after its transaction was committed.
Locked_unreleased(t, table, key) ==
    \/ \E u \in Tasks \ {t} : \E r \in tx[u][table] : pk(table, r) = key
    \/ \E r \in (CASE table = "senders" -> senders
                    [] table = "groups" -> groups
                    [] OTHER -> messages) : pk(table, r) = key

\* A write of `key` waits while another open transaction has written that key.
Locked(t, table, key) ==
    \E u \in Tasks \ {t} : \E r \in tx[u][table] : pk(table, r) = key

\* models.upsert for a Sender or Group: create the row; on a uniqueness conflict
\* the row that already exists is the one that stays.  `raised` tells whether
\* the statement ends in an IntegrityError; the upsert never does.
upsert_entity(table, committed, own, row) ==
    IF session_get(table, Visible(table, committed, own), pk(table, row)) # None
    THEN [raised |-> FALSE, rows |-> own]
    ELSE [raised |-> FALSE, rows |-> own \cup {row}]

\* A plain INSERT: a uniqueness conflict raises.
insert_sender(committed, own, row) ==
    IF session_get("senders", Visible("senders", committed, own), row.jid) # None
    THEN [raised |-> TRUE, rows |-> own]
    ELSE [raised |-> FALSE, rows |-> own \cup {row}]

\* An upsert that updates the existing row with the new values.
overwrite_sender(committed, own, row) ==
    [raised |-> FALSE, rows |-> {o \in own : o.jid # row.jid} \cup {row}]

upsert_sender(committed, own, row) == upsert_entity("senders", committed, own, row)

\* A create that does not look for the existing row.
insert_group(committed, own, row) == [raised |-> FALSE, rows |-> own \cup {row}]

upsert_group(committed, own, row) == upsert_entity("groups", committed, own, row)

\* An insert that does not replace the row of the same key.
insert_message(own, row) == own \cup {row}

\* models.upsert for a Message: insert the row, or update the row of that key.
upsert_message(own, row) ==
    {o \in own : o.message_id # row.message_id} \cup {row}

\* COMMIT: the transaction's rows replace the committed rows of the same keys.
commit(table, committed, own) == Visible(table, committed, own)

\* A rollback that undoes the Message insert only.
rollback_message_only(own) == [own EXCEPT !.messages = {}]

\* ROLLBACK TO SAVEPOINT of store_message's begin_nested block: the block is the
\* session's first write, so the transaction is left without written rows.
rollback_nested(own) == EmptyTx

\* session.rollback()
rollback(own) == EmptyTx

SessionSenders(t) == Visible("senders", senders, tx[t].senders)
SessionGroups(t) == Visible("groups", groups, tx[t].groups)
SessionMessages(t) == Visible("messages", messages, tx[t].messages)

\* ------------------------------------------------------------ webhook.py
\* A freshness window that is one day too short.
stale_early(p) == p.age >= FreshnessDays

\* A freshness window that is one day too long.
stale_late(p) == p.age > FreshnessDays + 1

\* payload.timestamp < datetime.now(timezone.utc) - timedelta(days=4)
stale(p) == p.age > FreshnessDays

has_text(p) ==
    /\ p.message # None
    /\ Val(p.message).text # None
    /\ Val(Val(p.message).text) # EmptyText

\* A length test that lets two words pass.
long_enough_two(p) == word_count(Val(Val(p.message).text)) >= MinWords

\* word_count <= 2 is rejected
long_enough(p) == word_count(Val(Val(p.message).text)) > MinWords

\* A guard that never recognises a stored message.
found_never(existing_message) == FALSE

\* if existing_message:
found(existing_message) == existing_message # None

\* The filters tried in another order: content type first.
FilterVerdict_content_first(p) ==
    IF ~has_text(p) THEN "no_text"
    ELSE IF stale(p) THEN "stale"
    ELSE IF ~long_enough(p) THEN "short"
    ELSE "pass"

\* The part of should_process_message that runs before the first await.
FilterVerdict(p) ==
    IF stale(p) THEN "stale"
    ELSE IF ~has_text(p) THEN "no_text"
    ELSE IF ~long_enough(p) THEN "short"
    ELSE "pass"

\* ------------------------------------------------------- models.Message
from_webhook(p) ==
    LET sender == p.from_[1]
        chat == p.from_[Len(p.from_)]
    IN  [message_id |-> Val(p.message).id,
         text |-> Val(p.message).text,
         chat_jid |-> normalize_jid(chat),
         sender_jid |-> normalize_jid(sender),
         group_jid |-> IF is_group(chat) THEN Some(to_non_ad(chat)) ELSE None,
         is_relevant |-> None,
         reasoning |-> None,
         relevancy_total_token_count |-> None,
         relevancy_input_tokens |-> None,
         relevancy_output_tokens |-> None]

\* ----------------------------------------------------- handler/__init__.py
\* The group jid as it came, with its device part.
extract_group_jid_raw(p) ==
    IF p.from_ = <<>> THEN None
    ELSE LET chat == p.from_[Len(p.from_)]
         IN  IF is_group(chat) THEN Some(chat) ELSE None

extract_group_jid(p) ==
    IF p.from_ = <<>> THEN None
    ELSE LET chat == p.from_[Len(p.from_)]
         IN  IF is_group(chat) THEN Some(to_non_ad(chat)) ELSE None

\* The comparison with the configured group inverted.
out_of_scope_inverted(limit, p) ==
    /\ limit # None
    /\ extract_group_jid(p) # None
    /\ extract_group_jid(p) = limit

\* if group_jid and group_jid != self.settings.limit_to_group_id
out_of_scope(limit, p) ==
    /\ limit # None
    /\ extract_group_jid(p) # None
    /\ extract_group_jid(p) # limit

truthy(text) == text # None /\ Val(text) # <<>>

\* if message and message.group_jid: (the Group relation is reloaded)
refreshes(msg) == msg.group_jid # None

\* Classification of every stored message with text.
classifies_all(msg) == truthy(msg.text)

\* if message and message.text: ... if message.group_jid:
classifies(msg) == truthy(msg.text) /\ msg.group_jid # None

\* A notification for every classified message.
sends_always(d) == TRUE

\* if should_send_notification:
sends(d) == d.should_notify

\* --------------------------------------------------- relevance_checker.py
\* What the classifier chain may answer: a decision with or without usage
\* counters, or "error" when the call (or the parsing of its answer) raises.
ChainAnswers ==
    {[kind |-> "decision", should_notify |-> TRUE, reasoning |-> "match", usage |-> Some(7)],
     [kind |-> "decision", should_notify |-> FALSE, reasoning |-> "no match", usage |-> None],
     [kind |-> "error", should_notify |-> FALSE, reasoning |-> "", usage |-> None]}

Decision(flag, reasoning, total, input, output) ==
    [should_notify |-> flag, reasoning |-> reasoning, total_tokens |-> total,
     input_tokens |-> input, output_tokens |-> output, raised |-> FALSE]

\* should_notify without its try/except: an error of the chain leaves it.
should_notify_unguarded(text, chain, answer) ==
    IF text = None \/ word_count(Val(text)) = 0
    THEN Decision(FALSE, "Empty message", None, None, None)
    ELSE IF ~chain
    THEN Decision(FALSE, "API key not available", None, None, None)
    ELSE IF answer.kind = "error"
    THEN [Decision(FALSE, "", None, None, None) EXCEPT !.raised = TRUE]
    ELSE Decision(answer.should_notify, answer.reasoning,
                  answer.usage,
                  IF answer.usage = None THEN None ELSE Some(Val(answer.usage) - 3),
                  IF answer.usage = None THEN None ELSE Some(3))

\* should_notify without the test for a missing chain: ainvoke on None raises
\* and the except branch answers.
should_notify_no_chain_test(text, chain, answer) ==
    IF text = None \/ word_count(Val(text)) = 0
    THEN Decision(FALSE, "Empty message", None, None, None)
    ELSE IF ~chain \/ answer.kind = "error"
    THEN Decision(FALSE, "Analysis failed", None, None, None)
    ELSE Decision(answer.should_notify, answer.reasoning,
                  answer.usage,
                  IF answer.usage = None THEN None ELSE Some(Val(answer.usage) - 3),
                  IF answer.usage = None THEN None ELSE Some(3))

\* should_notify(message_text), given whether the chain exists and its answer.
should_notify(text, chain, answer) ==
    IF text = None \/ word_count(Val(text)) = 0
    THEN Decision(FALSE, "Empty message", None, None, None)
    ELSE IF ~chain
    THEN Decision(FALSE, "API key not available", None, None, None)
    ELSE IF answer.kind = "error"
    THEN Decision(FALSE, "Analysis failed", None, None, None)
    ELSE Decision(answer.should_notify, answer.reasoning,
                  answer.usage,
                  IF answer.usage = None THEN None ELSE Some(Val(answer.usage) - 3),
                  IF answer.usage = None THEN None ELSE Some(3))

\* Whether should_notify reaches notification_chain.ainvoke.
invokes_chain(text, chain) ==
    /\ text # None
    /\ word_count(Val(text)) # 0
    /\ chain

\* ------------------------------------------------------------------ Init
Init ==
    /\ limit_to_group_id \in {None, Some(Group222)}
    /\ notification_chain \in BOOLEAN
    /\ senders = {}
    /\ groups = {}
    /\ messages = {}
    /\ tx = [t \in Tasks |-> EmptyTx]
    /\ pc = [t \in Tasks |-> "idle"]
    /\ \E d \in Deliveries : payload = [t \in Tasks |-> PayloadSeq[d[t]]]
    /\ message = [t \in Tasks |-> NoMessage]
    /\ group = [t \in Tasks |-> None]
    /\ decision = [t \in Tasks |-> NoDecision]
    /\ response = [t \in Tasks |-> "none"]
    /\ outcome = [t \in Tasks |-> "none"]
    /\ calls = [t \in Tasks |-> NoCalls]

\* The webhook function returns "ok"; the session dependency is torn down next.
\* The start with the configuration drawn from `limits` and `chains` and the
\* deliveries carrying payloads of `seq`.
InitOf(limits, chains, seq) ==
    /\ limit_to_group_id \in limits
    /\ notification_chain \in chains
    /\ senders = {}
    /\ groups = {}
    /\ messages = {}
    /\ tx = [t \in Tasks |-> EmptyTx]
    /\ pc = [t \in Tasks |-> "idle"]
    /\ \E d \in DeliveriesOf(seq) : payload = [t \in Tasks |-> seq[d[t]]]
    /\ message = [t \in Tasks |-> NoMessage]
    /\ group = [t \in Tasks |-> None]
    /\ decision = [t \in Tasks |-> NoDecision]
    /\ response = [t \in Tasks |-> "none"]
    /\ outcome = [t \in Tasks |-> "none"]
    /\ calls = [t \in Tasks |-> NoCalls]

\* Group messages only, no restriction, the classifier configured.
NamingInit == InitOf({None}, {TRUE}, NamePayloads)

IngestInit == InitOf({None, Some(Group222)}, BOOLEAN, IngestPayloads)

HandledInit == InitOf({None, Some(Group222)}, BOOLEAN, HandledPayloads)

LifecycleInit == InitOf({None, Some(Group222)}, BOOLEAN, LifecyclePayloads)

StorageInit == InitOf({None, Some(Group222)}, BOOLEAN, StoragePayloads)

\* Restricted to one group, the classifier configured.
FairInit == InitOf({Some(Group222)}, {TRUE}, FairPayloads)

Return(t, how) ==
    /\ pc' = [pc EXCEPT ![t] = "teardown"]
    /\ response' = [response EXCEPT ![t] = "ok"]
    /\ outcome' = [outcome EXCEPT ![t] = how]

Goto(t, where) ==
    /\ pc' = [pc EXCEPT ![t] = where]
    /\ UNCHANGED <<response, outcome>>

\* ------------------------------------------------------------- webhook()
\* A webhook() that refuses a payload without `from` instead of ignoring it.
webhook_refuses_no_sender(t) ==
    /\ pc[t] = "idle"
    /\ \A u \in Tasks : (u < t /\ payload[u] = payload[t]) => pc[u] # "idle"
    /\ IF payload[t].from_ = <<>>
       THEN /\ pc' = [pc EXCEPT ![t] = "raised"]
            /\ outcome' = [outcome EXCEPT ![t] = "no_sender"]
            /\ UNCHANGED response
       ELSE IF FilterVerdict(payload[t]) # "pass" THEN Return(t, FilterVerdict(payload[t]))
       ELSE Goto(t, "lookup")
    /\ UNCHANGED <<limit_to_group_id, notification_chain, senders, groups, messages,
                   tx, payload, message, group, decision, calls>>

\* A webhook() that applies the scope limiter before the filter chain.
webhook_scope_first(t) ==
    /\ pc[t] = "idle"
    /\ \A u \in Tasks : (u < t /\ payload[u] = payload[t]) => pc[u] # "idle"
    /\ IF payload[t].from_ = <<>> THEN Return(t, "no_sender")
       ELSE IF out_of_scope(limit_to_group_id, payload[t]) THEN Return(t, "out_of_scope")
       ELSE IF FilterVerdict(payload[t]) # "pass" THEN Return(t, FilterVerdict(payload[t]))
       ELSE Goto(t, "lookup")
    /\ UNCHANGED <<limit_to_group_id, notification_chain, senders, groups, messages,
                   tx, payload, message, group, decision, calls>>

\* POST /webhook with payload[t], up to the first await: the `from` test and
\* the filter chain.
webhook(t) ==
    /\ pc[t] = "idle"
    /\ \A u \in Tasks : (u < t /\ payload[u] = payload[t]) => pc[u] # "idle"
    /\ IF payload[t].from_ = <<>> THEN Return(t, "no_sender")
       ELSE IF FilterVerdict(payload[t]) # "pass" THEN Return(t, FilterVerdict(payload[t]))
       ELSE Goto(t, "lookup")
    /\ UNCHANGED <<limit_to_group_id, notification_chain, senders, groups, messages,
                   tx, payload, message, group, decision, calls>>

\* The duplicate guard's lookup returns; a new message enters the handler, whose
\* scope limiter runs before its first await.
duplicate_guard(t) ==
    /\ pc[t] = "lookup"
    /\ LET id == Val(payload[t].message).id
           existing_message == session_get("messages", SessionMessages(t), id)
           stored == \E row \in messages : row.message_id = id
       IN  IF found(existing_message)
           THEN /\ Return(t, "duplicate")
                /\ calls' = [calls EXCEPT ![t].lookup = TRUE, ![t].stored_at_lookup = stored]
                /\ UNCHANGED message
           ELSE IF out_of_scope(limit_to_group_id, payload[t])
           THEN /\ Return(t, "out_of_scope")
                /\ calls' = [calls EXCEPT ![t].lookup = TRUE, ![t].stored_at_lookup = stored,
                                          ![t].handler = TRUE]
                /\ UNCHANGED message
           ELSE /\ Goto(t, "get_sender")
                /\ calls' = [calls EXCEPT ![t].lookup = TRUE, ![t].stored_at_lookup = stored,
                                          ![t].handler = TRUE, ![t].store = TRUE]
                /\ message' = [message EXCEPT ![t] = from_webhook(payload[t])]
    /\ UNCHANGED <<limit_to_group_id, notification_chain, senders, groups, messages,
                   tx, payload, group, decision>>

\* ------------------------------------------------ BaseHandler.store_message
\* The nested subject preferred over the top-level one.
group_name_nested_first(p) ==
    IF p.message # None /\ Val(p.message).context_info # None
    THEN Val(Val(p.message).context_info).group_subject
    ELSE IF p.group_subject # None /\ Val(p.group_subject) # ""
    THEN p.group_subject
    ELSE None

\* The name a Group created for this payload gets.
group_name_of(p) ==
    IF p.group_subject # None /\ Val(p.group_subject) # ""
    THEN p.group_subject
    ELSE IF p.message # None /\ Val(p.message).context_info # None
    THEN Val(Val(p.message).context_info).group_subject
    ELSE None

\* A Sender keyed by the jid as it came, with its device part.
new_sender_raw(t) == [jid |-> payload[t].from_[1], push_name |-> payload[t].pushname]

new_sender(t) == [jid |-> message[t].sender_jid, push_name |-> payload[t].pushname]

new_group(t) ==
    [group_jid |-> Val(message[t].group_jid), group_name |-> group_name_of(payload[t])]

\* store_message without the Group get-or-create.
skip_group(t) == "upsert_message"

\* if message.group_jid:
after_sender(t) == IF message[t].group_jid # None THEN "get_group" ELSE "upsert_message"

Wrote(t) == calls' = [calls EXCEPT ![t].writes = @ + 1]

\* A statement of the begin_nested block raises: the block is rolled back and the
\* exception leaves store_message, the handler and webhook().
Raise(t, how) ==
    /\ tx' = [tx EXCEPT ![t] = rollback_nested(tx[t])]
    /\ pc' = [pc EXCEPT ![t] = "raised"]
    /\ outcome' = [outcome EXCEPT ![t] = how]
    /\ UNCHANGED <<response, calls>>

StoreFrame == <<limit_to_group_id, notification_chain, senders, groups, messages,
                payload, message, group, decision>>

\* sender = await self.session.get(Sender, message.sender_jid)
store_get_sender(t) ==
    /\ pc[t] = "get_sender"
    /\ IF session_get("senders", SessionSenders(t), message[t].sender_jid) = None
       THEN Goto(t, "upsert_sender")
       ELSE Goto(t, after_sender(t))
    /\ UNCHANGED <<StoreFrame, tx, calls>>

\* await self.upsert(sender); await self.session.flush()
store_upsert_sender(t) ==
    /\ pc[t] = "upsert_sender"
    /\ ~Locked(t, "senders", message[t].sender_jid)
    /\ LET result == upsert_sender(senders, tx[t].senders, new_sender(t))
       IN  IF result.raised
           THEN Raise(t, "conflict")
           ELSE /\ tx' = [tx EXCEPT ![t].senders = result.rows]
                /\ Wrote(t)
                /\ Goto(t, after_sender(t))
    /\ UNCHANGED StoreFrame

\* group = await self.session.get(Group, message.group_jid)
store_get_group(t) ==
    /\ pc[t] = "get_group"
    /\ IF session_get("groups", SessionGroups(t), Val(message[t].group_jid)) = None
       THEN Goto(t, "upsert_group")
       ELSE Goto(t, "upsert_message")
    /\ UNCHANGED <<StoreFrame, tx, calls>>

\* await self.upsert(group); await self.session.flush()
store_upsert_group(t) ==
    /\ pc[t] = "upsert_group"
    /\ ~Locked(t, "groups", Val(message[t].group_jid))
    /\ LET result == upsert_group(groups, tx[t].groups, new_group(t))
       IN  IF result.raised
           THEN Raise(t, "conflict")
           ELSE /\ tx' = [tx EXCEPT ![t].groups = result.rows]
                /\ Wrote(t)
                /\ Goto(t, "upsert_message")
    /\ UNCHANGED StoreFrame

\* return await self.upsert(message): the begin_nested block is left.  A direct
\* message needs no more awaits: the handler and webhook() return.
store_upsert_message(t) ==
    /\ pc[t] = "upsert_message"
    /\ ~Locked(t, "messages", message[t].message_id)
    /\ tx' = [tx EXCEPT ![t].messages = upsert_message(tx[t].messages, message[t])]
    /\ Wrote(t)
    /\ IF refreshes(message[t]) THEN Goto(t, "refresh")
       ELSE IF classifies(message[t]) THEN Goto(t, "classify")
       ELSE Return(t, "stored")
    /\ UNCHANGED StoreFrame

\* The Message insert raises a storage error.
store_message_fails(t) ==
    /\ pc[t] = "upsert_message"
    /\ Raise(t, "persistence_failure")
    /\ UNCHANGED StoreFrame

\* -------------------------------------------------- MessageHandler.__call__
\* await self.session.refresh(message, ["group"])
refresh_group(t) ==
    /\ pc[t] = "refresh"
    /\ group' = [group EXCEPT ![t] =
                    session_get("groups", SessionGroups(t), Val(message[t].group_jid))]
    /\ IF classifies(message[t]) THEN Goto(t, "classify") ELSE Return(t, "stored")
    /\ UNCHANGED <<limit_to_group_id, notification_chain, senders, groups, messages,
                   tx, payload, message, decision, calls>>

\* The reload raises a storage error: it leaves the handler and webhook() with
\* the flushed rows of store_message still in the open transaction.
refresh_group_fails(t) ==
    /\ pc[t] = "refresh"
    /\ pc' = [pc EXCEPT ![t] = "raised"]
    /\ outcome' = [outcome EXCEPT ![t] = "refresh_failed"]
    /\ UNCHANGED <<limit_to_group_id, notification_chain, senders, groups, messages,
                   tx, payload, message, group, decision, response, calls>>

classified(row, d) ==
    [row EXCEPT !.is_relevant = Some(d.should_notify),
                !.reasoning = Some(d.reasoning),
                !.relevancy_total_token_count = d.total_tokens,
                !.relevancy_input_tokens = d.input_tokens,
                !.relevancy_output_tokens = d.output_tokens]

\* await should_notify(message.text), then the assignments to the Message object.
classify(t, answer) ==
    /\ pc[t] = "classify"
    /\ LET d == should_notify(message[t].text, notification_chain, answer)
       IN  IF d.raised
           THEN /\ pc' = [pc EXCEPT ![t] = "raised"]
                /\ outcome' = [outcome EXCEPT ![t] = "classifier_raised"]
                /\ UNCHANGED <<decision, message, response>>
           ELSE /\ decision' = [decision EXCEPT ![t] = d]
                /\ message' = [message EXCEPT ![t] = classified(message[t], d)]
                /\ Goto(t, "commit")
    /\ calls' = [calls EXCEPT ![t].should_notify = TRUE,
                              ![t].classifier = invokes_chain(message[t].text, notification_chain),
                              ![t].chain_error = /\ invokes_chain(message[t].text, notification_chain)
                                                 /\ answer.kind = "error"]
    /\ UNCHANGED <<limit_to_group_id, notification_chain, senders, groups, messages,
                   tx, payload, group>>

\* The UPDATE that session.add(message) + flush issue for the Message object.
update_message(own, visible, msg) ==
    IF session_get("messages", visible, msg.message_id) = None
    THEN own
    ELSE upsert_message(own, msg)

\* self.session.add(message); await self.session.commit()
commit_classification(t) ==
    /\ pc[t] = "commit"
    /\ ~Locked(t, "messages", message[t].message_id)
    /\ LET own == update_message(tx[t].messages, SessionMessages(t), message[t])
       IN  /\ messages' = commit("messages", messages, own)
           /\ senders' = commit("senders", senders, tx[t].senders)
           /\ groups' = commit("groups", groups, tx[t].groups)
    /\ tx' = [tx EXCEPT ![t] = EmptyTx]
    /\ Wrote(t)
    /\ IF sends(decision[t])
       THEN Goto(t, "post")
       ELSE Return(t, "not_relevant")
    /\ UNCHANGED <<limit_to_group_id, notification_chain, payload, message, group, decision>>

slack_payload(t) ==
    [sender_jid |-> message[t].sender_jid,
     pushname |-> payload[t].pushname,
     group_name |-> IF group[t] # None /\ Val(group[t]).group_name # None
                                      /\ Val(Val(group[t]).group_name) # ""
                    THEN Val(Val(group[t]).group_name) ELSE "Unknown Group",
     content |-> Val(message[t].text)]

\* The POST without its try/except: a failure leaves the handler.
post_to_slack_raises(t, delivered) ==
    /\ pc[t] = "post"
    /\ calls' = [calls EXCEPT ![t].post = Some(slack_payload(t))]
    /\ IF delivered
       THEN Return(t, "notified")
       ELSE /\ pc' = [pc EXCEPT ![t] = "raised"]
            /\ outcome' = [outcome EXCEPT ![t] = "notification_failed"]
            /\ UNCHANGED response
    /\ UNCHANGED <<limit_to_group_id, notification_chain, senders, groups, messages,
                   tx, payload, message, group, decision>>

\* A POST that is tried again after a failure.
post_to_slack_retries(t, delivered) ==
    /\ pc[t] = "post"
    /\ calls' = [calls EXCEPT ![t].post = Some(slack_payload(t))]
    /\ IF ~delivered /\ calls[t].post = None
       THEN Goto(t, "post")
       ELSE Return(t, IF delivered THEN "notified" ELSE "notification_failed")
    /\ UNCHANGED <<limit_to_group_id, notification_chain, senders, groups, messages,
                   tx, payload, message, group, decision>>

\* await client.post(slack_webhook_url, ...); response.raise_for_status()
post_to_slack(t, delivered) ==
    /\ pc[t] = "post"
    /\ calls' = [calls EXCEPT ![t].post = Some(slack_payload(t))]
    /\ Return(t, IF delivered THEN "notified" ELSE "notification_failed")
    /\ UNCHANGED <<limit_to_group_id, notification_chain, senders, groups, messages,
                   tx, payload, message, group, decision>>

\* ------------------------------------------------- get_db_async_session
\* After the yield: await session.commit()
session_commit(t) ==
    /\ pc[t] = "teardown"
    /\ messages' = commit("messages", messages, tx[t].messages)
    /\ senders' = commit("senders", senders, tx[t].senders)
    /\ groups' = commit("groups", groups, tx[t].groups)
    /\ tx' = [tx EXCEPT ![t] = EmptyTx]
    /\ pc' = [pc EXCEPT ![t] = "done"]
    /\ UNCHANGED <<limit_to_group_id, notification_chain, payload, message, group,
                   decision, response, outcome, calls>>

\* A teardown that swallows the exception and answers "ok".
session_rollback_swallows(t) ==
    /\ pc[t] = "raised"
    /\ tx' = [tx EXCEPT ![t] = rollback(tx[t])]
    /\ pc' = [pc EXCEPT ![t] = "done"]
    /\ response' = [response EXCEPT ![t] = "ok"]
    /\ UNCHANGED <<limit_to_group_id, notification_chain, senders, groups, messages,
                   payload, message, group, decision, outcome, calls>>

\* A teardown that commits what was flushed before it raises again.
session_rollback_commits(t) ==
    /\ pc[t] = "raised"
    /\ messages' = commit("messages", messages, tx[t].messages)
    /\ senders' = commit("senders", senders, tx[t].senders)
    /\ groups' = commit("groups", groups, tx[t].groups)
    /\ tx' = [tx EXCEPT ![t] = EmptyTx]
    /\ pc' = [pc EXCEPT ![t] = "done"]
    /\ response' = [response EXCEPT ![t] = "error"]
    /\ UNCHANGED <<limit_to_group_id, notification_chain,
                   payload, message, group, decision, outcome, calls>>

\* except Exception: await session.rollback(); raise
session_rollback(t) ==
    /\ pc[t] = "raised"
    /\ tx' = [tx EXCEPT ![t] = rollback(tx[t])]
    /\ pc' = [pc EXCEPT ![t] = "done"]
    /\ response' = [response EXCEPT ![t] = "error"]
    /\ UNCHANGED <<limit_to_group_id, notification_chain, senders, groups, messages,
                   payload, message, group, decision, outcome, calls>>

\* ------------------------------------------------------------------ Next
Next ==
    \/ \E t \in Tasks : webhook(t)
    \/ \E t \in Tasks : duplicate_guard(t)
    \/ \E t \in Tasks : store_get_sender(t)
    \/ \E t \in Tasks : store_upsert_sender(t)
    \/ \E t \in Tasks : store_get_group(t)
    \/ \E t \in Tasks : store_upsert_group(t)
    \/ \E t \in Tasks : store_upsert_message(t)
    \/ \E t \in Tasks : store_message_fails(t)
    \/ \E t \in Tasks : refresh_group(t)
    \/ \E t \in Tasks : refresh_group_fails(t)
    \/ \E t \in Tasks, answer \in ChainAnswers : classify(t, answer)
    \/ \E t \in Tasks : commit_classification(t)
    \/ \E t \in Tasks, delivered \in BOOLEAN : post_to_slack(t, delivered)
    \/ \E t \in Tasks : session_commit(t)
    \/ \E t \in Tasks : session_rollback(t)

Spec == Init /\ [][Next]_vars

\* The system fed with the deliveries that meet the filter chain.
Ingest == IngestInit /\ [][Next]_vars

\* The system fed with the deliveries that reach the handler.
Pipeline == HandledInit /\ [][Next]_vars

\* The system fed with the deliveries that race for the same rows.
Storage == StorageInit /\ [][Next]_vars

\* The system fed with the deliveries whose end is looked at.
Lifecycle == LifecycleInit /\ [][Next]_vars

\* The system fed with group messages that differ in their subjects.
Naming == NamingInit /\ [][Next]_vars

\* A step of delivery t in which the call it awaits returns.
TaskStep(t) ==
    \/ webhook(t)
    \/ duplicate_guard(t)
    \/ store_get_sender(t)
    \/ store_upsert_sender(t)
    \/ store_get_group(t)
    \/ store_upsert_group(t)
    \/ store_upsert_message(t)
    \/ refresh_group(t)
    \/ \E answer \in ChainAnswers : classify(t, answer)
    \/ commit_classification(t)
    \/ \E delivered \in BOOLEAN : post_to_slack(t, delivered)
    \/ session_commit(t)
    \/ session_rollback(t)

\* The event loop resumes every delivery whose awaited call has returned.
Fair == FairInit /\ [][Next]_vars /\ \A t \in Tasks : WF_vars(TaskStep(t))

TypeOK ==
    /\ pc \in [Tasks -> {"idle", "lookup", "get_sender", "upsert_sender", "get_group",
                          "upsert_group", "upsert_message", "refresh", "classify",
                          "commit", "post", "teardown", "raised", "done"}]
    /\ response \in [Tasks -> {"none", "ok", "error"}]

\* ================================================================ claims
Arrived(t) == pc[t] # "idle"
Finished(t) == pc[t] = "done"
IdOf(t) == Val(payload[t].message).id
StoredIds == {row.message_id : row \in messages}

\* C1: a delivery that ends in a filter rejection, a duplicate drop, a scope
\* drop, a classifier failure or unavailability, or a notification failure is
\* answered "ok"; none of these ends in an error response.
SoftEnd(t) ==
    \/ outcome[t] \in {"stale", "no_text", "short", "duplicate", "out_of_scope",
                       "notification_failed"}
    \/ /\ outcome[t] = "not_relevant"
       /\ decision[t].reasoning \in {"API key not available", "Analysis failed"}

C1_SoftOutcomesAcknowledged ==
    \A t \in Tasks :
        SoftEnd(t) => /\ response[t] = "ok"
                      /\ pc[t] \in {"teardown", "done"}

C1_Witness ==
    \E t, u \in Tasks :
        /\ Finished(t) /\ outcome[t] = "notification_failed" /\ response[t] = "ok"
        /\ Finished(u) /\ outcome[u] = "duplicate" /\ response[u] = "ok"

\* C2: a delivery whose message id is already stored when the duplicate guard
\* looks it up does not reach the handler: it writes no row, calls neither the
\* classifier nor the dispatcher, and is answered "ok".
C2_RedeliveryDropped ==
    \A t \in Tasks :
        calls[t].stored_at_lookup =>
            /\ outcome[t] = "duplicate"
            /\ response[t] = "ok"
            /\ ~calls[t].handler
            /\ ~calls[t].store
            /\ ~calls[t].should_notify
            /\ ~calls[t].classifier
            /\ calls[t].post = None
            /\ calls[t].writes = 0
            /\ tx[t] = EmptyTx

C2_Witness ==
    \E t, u \in Tasks :
        /\ t # u
        /\ payload[t] = payload[u]
        /\ Finished(u) /\ outcome[u] = "notified"
        /\ Finished(t) /\ calls[t].stored_at_lookup
        /\ Cardinality(messages) = 1

\* C3: for every message id, over all deliveries of it, the classifier is
\* invoked at most once and the dispatcher is invoked at most once.
C3_AtMostOnce ==
    \A t, u \in Tasks :
        (t # u /\ calls[t].store /\ calls[u].store /\ IdOf(t) = IdOf(u)) =>
            /\ ~(calls[t].classifier /\ calls[u].classifier)
            /\ ~(calls[t].post # None /\ calls[u].post # None)

\* C4: the Message store never holds two rows of one message id.
C4_OneRowPerMessageId ==
    \A r1, r2 \in messages : r1.message_id = r2.message_id => r1 = r2

C4_Witness ==
    \E t, u \in Tasks :
        /\ t # u
        /\ Finished(t) /\ calls[t].store /\ response[t] = "ok"
        /\ Finished(u) /\ calls[u].store /\ response[u] = "ok"
        /\ IdOf(t) = IdOf(u)
        /\ Cardinality({row \in messages : row.message_id = IdOf(t)}) = 1

\* C5: every Message row names an existing Sender row and, when it has a
\* group_jid, an existing Group row; this holds of the committed rows and of
\* what each session sees, so the Sender and Group are there before the Message.
RefsResolve(ms, ss, gs) ==
    \A m \in ms :
        /\ \E sender \in ss : sender.jid = m.sender_jid
        /\ m.group_jid # None => \E g \in gs : g.group_jid = Val(m.group_jid)

C5_ReferentialIntegrity ==
    /\ RefsResolve(messages, senders, groups)
    /\ \A t \in Tasks :
           RefsResolve(SessionMessages(t), SessionSenders(t), SessionGroups(t))

C5_Witness ==
    \E t \in Tasks :
        /\ pc[t] = "refresh"
        /\ tx[t].messages # {}
        /\ tx[t].senders # {}
        /\ tx[t].groups # {}

\* C6: of a group there is never more than one Group row, counting the committed
\* row and the rows open transactions have created; and a committed Message of
\* the group is never there without the committed Group row.
GroupCopies(k) ==
    Cardinality({g \in groups : g.group_jid = k})
    + Cardinality({t \in Tasks : \E g \in tx[t].groups : g.group_jid = k})

GroupKeys ==
    {g.group_jid : g \in groups \cup UNION {tx[t].groups : t \in Tasks}}
    \cup {Val(m.group_jid) : m \in {r \in messages : r.group_jid # None}}

C6_GroupCreatedOnce ==
    \A k \in GroupKeys :
        /\ GroupCopies(k) <= 1
        /\ \A m \in messages :
               m.group_jid = Some(k) => \E g \in groups : g.group_jid = k

\* Both deliveries found the group absent and went on to create it.
C6_Witness ==
    \E t, u \in Tasks :
        /\ payload[t] = PayloadA /\ payload[u] = PayloadB
        /\ Finished(t) /\ calls[t].writes = 4
        /\ Finished(u) /\ calls[u].writes = 4
        /\ {"M1", "M2"} \subseteq StoredIds
        /\ Cardinality(groups) = 1

\* C7: no delivery ends in a uniqueness conflict, and a delivery that ran
\* store_message without a storage error is answered "ok" with its Message,
\* Sender and Group rows stored.
C7_CreateRaceRecovered ==
    \A t \in Tasks :
        /\ outcome[t] # "conflict"
        /\ (/\ Finished(t)
            /\ calls[t].store
            /\ outcome[t] \notin {"persistence_failure", "refresh_failed"}) =>
               /\ response[t] = "ok"
               /\ \E m \in messages :
                      /\ m.message_id = IdOf(t)
                      /\ \E sender \in senders : sender.jid = m.sender_jid
                      /\ m.group_jid # None => \E g \in groups : g.group_jid = Val(m.group_jid)

\* Both deliveries found the sender absent and went on to create it.
C7_Witness ==
    \E t, u \in Tasks :
        /\ payload[t] = PayloadA /\ payload[u] = PayloadDirect
        /\ Finished(t) /\ calls[t].writes = 4 /\ response[t] = "ok"
        /\ Finished(u) /\ calls[u].writes = 2 /\ response[u] = "ok"
        /\ {"M1", "M3"} \subseteq StoredIds
        /\ Cardinality(senders) = 1

\* C8: when the Message insert fails, the Sender and Group rows the same call
\* created are rolled back with it: the session is left without written rows.
C8_StoreMessageAtomic ==
    \A t \in Tasks :
        outcome[t] = "persistence_failure" =>
            /\ tx[t].senders = {}
            /\ tx[t].groups = {}
            /\ tx[t].messages = {}
            /\ IdOf(t) \in StoredIds => \E u \in Tasks \ {t} : calls[u].store /\ IdOf(u) = IdOf(t)

\* The call had created both the Sender and the Group before its insert failed.
C8_Witness ==
    \E t \in Tasks :
        /\ pc[t] = "raised"
        /\ outcome[t] = "persistence_failure"
        /\ calls[t].writes = 2
        /\ message[t].group_jid # None
        /\ senders = {} /\ groups = {}

\* C9 as stated: a storage error inside store_message is not propagated to the
\* webhook caller as a failed response.
C9_FailureNotPropagated ==
    \A t \in Tasks :
        (Finished(t) /\ outcome[t] = "persistence_failure") => response[t] = "ok"

\* C9 as amended: a storage error inside store_message rolls the session back
\* and is propagated: the delivery ends in an error response, with no classifier
\* or dispatcher call.
C9_FailurePropagated ==
    \A t \in Tasks :
        (Finished(t) /\ outcome[t] = "persistence_failure") =>
            /\ response[t] = "error"
            /\ tx[t] = EmptyTx
            /\ ~calls[t].should_notify
            /\ calls[t].post = None

C9_Witness ==
    \E t \in Tasks :
        /\ Finished(t)
        /\ outcome[t] = "persistence_failure"
        /\ response[t] = "error"

\* C10: a delivery whose timestamp is older than the freshness window does not
\* reach the duplicate guard or the handler and creates no row.
C10_StaleNotStored ==
    \A t \in Tasks :
        (Arrived(t) /\ payload[t].from_ # <<>> /\ payload[t].age > FreshnessDays) =>
            /\ outcome[t] = "stale"
            /\ ~calls[t].lookup
            /\ ~calls[t].handler
            /\ ~calls[t].store
            /\ calls[t].writes = 0
            /\ tx[t] = EmptyTx

C10_Witness ==
    \E t \in Tasks :
        /\ Finished(t)
        /\ payload[t] = PayloadStale
        /\ response[t] = "ok"
        /\ messages = {} /\ senders = {} /\ groups = {}

\* What the filters look at, read off the payload.
Fresh(t) == payload[t].age <= FreshnessDays
Textful(t) ==
    /\ payload[t].message # None
    /\ Val(payload[t].message).text # None
    /\ Val(Val(payload[t].message).text) # <<>>
\* Number of whitespace-separated words: the places where a word starts.
Words(t) ==
    LET text == Val(Val(payload[t].message).text)
    IN  Cardinality({i \in 1..Len(text) : text[i] # " " /\ (i = 1 \/ text[i - 1] = " ")})
Untouched(t) == calls[t].writes = 0 /\ tx[t] = EmptyTx

\* C11: a delivery whose text has at most two words never reaches the handler
\* and creates no row.
C11_ShortNotHandled ==
    \A t \in Tasks :
        (/\ Arrived(t)
         /\ payload[t].message # None
         /\ Val(payload[t].message).text # None
         /\ Words(t) <= MinWords) =>
            /\ ~calls[t].handler
            /\ ~calls[t].store
            /\ Untouched(t)
            /\ outcome[t] \in {"no_sender", "stale", "no_text", "short"}

C11_Witness ==
    \E t \in Tasks :
        /\ Finished(t)
        /\ payload[t] = PayloadShortPadded
        /\ outcome[t] = "short"
        /\ response[t] = "ok"
        /\ messages = {}

\* A delivery rejected by a filter: no lookup, no handler, no write.
Rejected(t, how) ==
    /\ outcome[t] = how
    /\ ~calls[t].lookup
    /\ ~calls[t].handler
    /\ Untouched(t)

\* C12: the filters are tried in the order staleness, content type, minimum
\* length, and the first that rejects decides; the Message lookup runs only for
\* a delivery that passed all three, and a rejected delivery touches no storage.
C12_FilterOrder ==
    \A t \in Tasks :
        (Arrived(t) /\ payload[t].from_ # <<>>) =>
            IF ~Fresh(t) THEN Rejected(t, "stale")
            ELSE IF ~Textful(t) THEN Rejected(t, "no_text")
            ELSE IF Words(t) <= MinWords THEN Rejected(t, "short")
            ELSE outcome[t] \notin {"stale", "no_text", "short"}

C12_Witness ==
    \E t, u \in Tasks :
        /\ Finished(t) /\ payload[t] = PayloadStaleNoBody /\ outcome[t] = "stale"
        /\ Finished(u) /\ payload[u] = PayloadEmptyText /\ outcome[u] = "no_text"
        /\ ~calls[t].lookup /\ ~calls[u].lookup

\* C13: should_process_message answers True (the handler is called) exactly when
\* the delivery is not older than the freshness window, has a non-empty text of
\* at least three words, and no Message with its id was stored at the lookup.
C13_AcceptedExactlyWhen ==
    \A t \in Tasks :
        (pc[t] \notin {"idle", "lookup"} /\ payload[t].from_ # <<>>) =>
            (calls[t].handler <=>
                /\ Fresh(t)
                /\ Textful(t)
                /\ Words(t) >= MinWords + 1
                /\ ~calls[t].stored_at_lookup)

C13_Witness ==
    \E t, u \in Tasks :
        /\ Finished(t) /\ payload[t] = PayloadB /\ calls[t].handler
        /\ Finished(u) /\ payload[u] = PayloadB /\ ~calls[u].handler
        /\ calls[u].stored_at_lookup

\* The chat a delivery came from and what the scope limiter makes of it.
Chat(t) == payload[t].from_[Len(payload[t].from_)]
Foreign(t) ==
    /\ limit_to_group_id # None
    /\ payload[t].from_ # <<>>
    /\ Chat(t).server = GroupServer
    /\ [Chat(t) EXCEPT !.device = 0] # Val(limit_to_group_id)

\* C14: with a restriction configured, a group message of another group (after
\* the device part is stripped) is dropped: store_message is not called, nothing
\* is written, the classifier is not called and nothing is notified.
C14_ForeignGroupDropped ==
    \A t \in Tasks :
        (Arrived(t) /\ Foreign(t)) =>
            /\ ~calls[t].store
            /\ Untouched(t)
            /\ ~calls[t].should_notify
            /\ ~calls[t].classifier
            /\ calls[t].post = None
            /\ calls[t].handler => (outcome[t] = "out_of_scope" /\ response[t] = "ok")

C14_Witness ==
    \E t \in Tasks :
        /\ Finished(t)
        /\ payload[t] = PayloadOther
        /\ limit_to_group_id = Some(Group222)
        /\ calls[t].handler
        /\ outcome[t] = "out_of_scope"
        /\ IdOf(t) \notin StoredIds

\* C15 as stated: the scope limiter comes first, so no Message lookup is made
\* for a group message of another group.
C15_ScopeFirst ==
    \A t \in Tasks : (Arrived(t) /\ Foreign(t)) => ~calls[t].lookup

\* C15: the scope limiter is the first statement of the handler: a message is
\* dropped as out of scope only after it passed the three filters and the
\* duplicate lookup found nothing, and before store_message or any write.
C15_ScopeAfterGuard ==
    \A t \in Tasks :
        outcome[t] = "out_of_scope" =>
            /\ Foreign(t)
            /\ Fresh(t) /\ Textful(t) /\ Words(t) > MinWords
            /\ calls[t].lookup
            /\ ~calls[t].stored_at_lookup
            /\ calls[t].handler
            /\ ~calls[t].store
            /\ Untouched(t)

C15_Witness ==
    \E t \in Tasks :
        /\ pc[t] = "teardown"
        /\ payload[t] = PayloadOther
        /\ outcome[t] = "out_of_scope"
        /\ calls[t].lookup

\* C16: the scope limiter lets through every message when no restriction is
\* configured, every direct message, and every group message whose group, with
\* the device part stripped, is the configured one: store_message is called.
C16_InScopeStored ==
    \A t \in Tasks :
        (/\ calls[t].handler
         /\ \/ limit_to_group_id = None
            \/ Chat(t).server # GroupServer
            \/ [Chat(t) EXCEPT !.device = 0] = Val(limit_to_group_id)) =>
            /\ calls[t].store
            /\ outcome[t] # "out_of_scope"

C16_Witness ==
    \E t, u \in Tasks :
        /\ limit_to_group_id = Some(Group222)
        /\ Finished(t) /\ payload[t] = PayloadB /\ calls[t].store
        /\ Finished(u) /\ payload[u] = PayloadDirect /\ calls[u].store
        /\ {IdOf(t), IdOf(u)} \subseteq StoredIds

Unclassified(row) ==
    /\ row.is_relevant = None
    /\ row.reasoning = None
    /\ row.relevancy_total_token_count = None
    /\ row.relevancy_input_tokens = None
    /\ row.relevancy_output_tokens = None


\* C17: for a direct message neither should_notify, the classifier chain nor
\* the Slack POST is ever called, and every Message row without group_jid,
\* committed or not, has its five classification fields null.
C17_DirectNeverClassified ==
    /\ \A t \in Tasks :
          (Arrived(t) /\ payload[t].from_ # <<>> /\ Chat(t).server # GroupServer) =>
              /\ ~calls[t].should_notify
              /\ ~calls[t].classifier
              /\ calls[t].post = None
              /\ decision[t] = NoDecision
              /\ Unclassified(message[t])
              /\ outcome[t] \notin {"not_relevant", "notified", "notification_failed"}
    /\ \A row \in messages : row.group_jid = None => Unclassified(row)
    /\ \A t \in Tasks : \A row \in tx[t].messages : row.group_jid = None => Unclassified(row)

C17_Witness ==
    \E t \in Tasks :
        /\ Finished(t)
        /\ payload[t] = PayloadDirect
        /\ outcome[t] = "stored"
        /\ \E row \in messages :
              /\ row.message_id = IdOf(t)
              /\ row.group_jid = None
              /\ Unclassified(row)

Handled(t) == pc[t] \in {"teardown", "done"}
RowOf(t) == {row \in messages : row.message_id = IdOf(t)}

\* C18 as stated: without a classifier chain a stored group message keeps its
\* relevance flag, reasoning and token counts null and is never notified.
C18_FieldsLeftNull ==
    \A t \in Tasks :
        (~notification_chain /\ Handled(t) /\ calls[t].should_notify) =>
            /\ RowOf(t) # {}
            /\ \A row \in RowOf(t) : Unclassified(row)
            /\ calls[t].post = None

\* C18: without a classifier chain should_notify answers (False, "API key not
\* available", no token counts) without calling the chain; the handler writes
\* that answer to the stored group message (is_relevant false, the reasoning
\* set, token counts null) and sends no notification.
C18_UnavailableRecordedAsNotRelevant ==
    \A t \in Tasks :
        (~notification_chain /\ calls[t].should_notify) =>
            /\ ~calls[t].classifier
            /\ decision[t] = Decision(FALSE, "API key not available", None, None, None)
            /\ calls[t].post = None
            /\ Handled(t) =>
                  /\ outcome[t] = "not_relevant"
                  /\ response[t] = "ok"
                  /\ RowOf(t) # {}
                  /\ \A row \in RowOf(t) :
                        /\ row.group_jid # None
                        /\ row.is_relevant = Some(FALSE)
                        /\ row.reasoning = Some("API key not available")
                        /\ row.relevancy_total_token_count = None
                        /\ row.relevancy_input_tokens = None
                        /\ row.relevancy_output_tokens = None

C18_Witness ==
    \E t \in Tasks :
        /\ ~notification_chain
        /\ Finished(t)
        /\ payload[t] = PayloadA
        /\ outcome[t] = "not_relevant"
        /\ \E row \in RowOf(t) : row.is_relevant = Some(FALSE)

\* C19: an error of the classifier chain does not leave should_notify: the
\* answer is (False, "Analysis failed...", no token counts), the handler goes
\* on to commit the message with that answer, no notification is sent and the
\* delivery is answered "ok".
C19_ClassifierErrorContained ==
    \A t \in Tasks :
        calls[t].chain_error =>
            /\ pc[t] \in {"commit", "teardown", "done"}
            /\ decision[t] = Decision(FALSE, "Analysis failed", None, None, None)
            /\ calls[t].post = None
            /\ Handled(t) =>
                  /\ outcome[t] = "not_relevant"
                  /\ response[t] = "ok"
                  /\ RowOf(t) # {}

C19_Witness ==
    \E t \in Tasks :
        /\ Finished(t)
        /\ calls[t].chain_error
        /\ outcome[t] = "not_relevant"
        /\ \E row \in RowOf(t) :
              /\ row.is_relevant = Some(FALSE)
              /\ row.reasoning = Some("Analysis failed")
              /\ row.relevancy_total_token_count = None

\* C20: the Slack POST is made only for a stored group message with text for
\* which should_notify answered True; every other outcome has no POST.
C20_NotifyOnlyRelevant ==
    \A t \in Tasks :
        /\ calls[t].post # None =>
              /\ calls[t].store
              /\ Chat(t).server = GroupServer
              /\ Textful(t)
              /\ calls[t].classifier
              /\ ~calls[t].chain_error
              /\ decision[t].should_notify
              /\ message[t].is_relevant = Some(TRUE)
              /\ \E row \in RowOf(t) : row.group_jid # None /\ row.text # None
        /\ outcome[t] \notin {"notified", "notification_failed"} => calls[t].post = None

C20_Witness ==
    \E t, u \in Tasks :
        /\ Finished(t) /\ payload[t] = PayloadA /\ outcome[t] = "notified"
        /\ calls[t].post # None /\ decision[t].should_notify
        /\ Finished(u) /\ payload[u] = PayloadB /\ outcome[u] = "not_relevant"
        /\ calls[u].post = None

\* C21: a failed POST stays inside the handler: the delivery is answered "ok",
\* no second POST follows the first of a handler run, and the step that makes
\* the POST changes no committed row and no open transaction.
C21_NotificationFailureSwallowed ==
    /\ [](\A t \in Tasks :
            /\ outcome[t] = "notification_failed" => response[t] = "ok"
            /\ calls[t].post # None =>
                  /\ pc[t] \in {"teardown", "done"}
                  /\ outcome[t] \in {"notified", "notification_failed"})
    /\ [][\A t \in Tasks :
            calls'[t].post # calls[t].post =>
                UNCHANGED <<messages, senders, groups, tx, message, decision>>]_vars

C21_Witness ==
    \E t \in Tasks :
        /\ Finished(t)
        /\ outcome[t] = "notification_failed"
        /\ response[t] = "ok"
        /\ \E row \in RowOf(t) : row.is_relevant = Some(TRUE) /\ row.reasoning = Some("match")

\* C22: when should_notify is called for a delivery, its Message row is already
\* committed, and the classification is written by a later, separate commit.
C22_InsertCommittedBeforeClassifier ==
    \A t \in Tasks :
        pc[t] \in {"classify", "commit"} =>
            /\ RowOf(t) # {}
            /\ tx[t].messages = {}

SameClassification(a, b) ==
    /\ a.is_relevant = b.is_relevant
    /\ a.reasoning = b.reasoning
    /\ a.relevancy_total_token_count = b.relevancy_total_token_count
    /\ a.relevancy_input_tokens = b.relevancy_input_tokens
    /\ a.relevancy_output_tokens = b.relevancy_output_tokens

\* C23: once the classification fields of a committed Message row are set, no
\* step of any delivery changes them.
C23_ClassificationWriteOnce ==
    [][\A row \in messages :
          row.is_relevant # None =>
              \E next \in messages' :
                  /\ next.message_id = row.message_id
                  /\ SameClassification(row, next)]_vars

Terminal == {"no_sender", "stale", "no_text", "short", "out_of_scope",
             "duplicate", "stored", "not_relevant", "notified", "notification_failed"}
Failed == {"persistence_failure", "conflict", "refresh_failed", "classifier_raised"}

\* C24: a delivery that has arrived ends, unless one of its calls raises, in
\* one terminal state (filtered out, duplicate, stored, classified not
\* relevant, notified, notification failed) that never changes afterwards, and
\* it is answered only once that state is reached.
C24_ReachesOneTerminalState ==
    /\ \A t \in Tasks :
          Arrived(t) ~> (outcome[t] \in Failed \/ (Finished(t) /\ outcome[t] \in Terminal))
    /\ [](\A t \in Tasks : response[t] # "none" => outcome[t] \in Terminal \cup Failed)
    /\ [][\A t \in Tasks : outcome[t] # "none" => outcome'[t] = outcome[t]]_vars

C24_Witness ==
    \E t, u \in Tasks :
        /\ Finished(t) /\ outcome[t] = "notified" /\ response[t] = "ok"
        /\ Finished(u) /\ outcome[u] = "stored" /\ response[u] = "ok"

\* A fresh group message of at least three words whose id was not stored when
\* the duplicate guard looked.
NewGroupMessage(t) ==
    /\ payload[t].from_ # <<>>
    /\ Chat(t).server = GroupServer
    /\ Fresh(t) /\ Textful(t) /\ Words(t) > MinWords
    /\ pc[t] \notin {"idle", "lookup"}
    /\ ~calls[t].stored_at_lookup

\* The rows a stored group message leaves: its Sender and its Group under
\* their device-less jids, and the Message with that group_jid.
RowsOf(t) ==
    /\ \E row \in senders : row.jid = [payload[t].from_[1] EXCEPT !.device = 0]
    /\ \E row \in groups : row.group_jid = [Chat(t) EXCEPT !.device = 0]
    /\ \E row \in messages :
          /\ row.message_id = IdOf(t)
          /\ row.group_jid = Some([Chat(t) EXCEPT !.device = 0])

C27_GroupNamePriority ==
    \A t \in Tasks :
        \A row \in tx[t].groups :
            LET top == payload[t].group_subject
                ctx == Val(payload[t].message).context_info
            IN  /\ row.group_jid = [Chat(t) EXCEPT !.device = 0]
                /\ row.group_name =
                      IF top # None /\ Val(top) # "" THEN top
                      ELSE IF ctx # None THEN Val(ctx).group_subject
                      ELSE None

C27_Witness ==
    \E t, u \in Tasks :
        /\ payload[t] = PayloadEmptySubject
        /\ tx[t].groups = {[group_jid |-> Group333, group_name |-> Some("Nested")]}
        /\ Finished(u) /\ payload[u] = PayloadNoContext
        /\ [group_jid |-> Group444, group_name |-> None] \in groups

\* C28: a delivery without `from` is answered "ok" and nothing else happens: no
\* filter verdict, no lookup, no handler, no write, no classifier call and no
\* POST.
C28_NoSenderIgnored ==
    \A t \in Tasks :
        (Arrived(t) /\ payload[t].from_ = <<>>) =>
            /\ outcome[t] = "no_sender"
            /\ response[t] = "ok"
            /\ pc[t] \in {"teardown", "done"}
            /\ calls[t] = NoCalls
            /\ Untouched(t)
            /\ message[t] = NoMessage

C28_Witness ==
    \E t \in Tasks :
        /\ Finished(t)
        /\ payload[t] = PayloadNoFrom
        /\ response[t] = "ok"
        /\ calls[t] = NoCalls
        /\ messages = {} /\ senders = {} /\ groups = {}

\* C29: at the step in which a delivery makes its POST, the committed Message
\* row of its message id has is_relevant = true and the reasoning and token
\* counts of the delivery's classification.
C29_CommittedBeforePost ==
    [][\A t \in Tasks :
          calls'[t].post # calls[t].post =>
              \E row \in RowOf(t) :
                  /\ row.is_relevant = Some(TRUE)
                  /\ row.reasoning = Some(decision[t].reasoning)
                  /\ row.relevancy_total_token_count = decision[t].total_tokens
                  /\ row.relevancy_input_tokens = decision[t].input_tokens
                  /\ row.relevancy_output_tokens = decision[t].output_tokens]_vars

\* C30: when the handler raises after store_message returned (the reload of
\* the Group fails), the teardown commits nothing: the committed rows stay as
\* they were, the rows the request had flushed are gone and the delivery is
\* answered with an error.  When the handler returns, the teardown commits
\* every row the request still holds.
C30_RollbackOrCommit ==
    /\ [](\A t \in Tasks :
            /\ outcome[t] = "refresh_failed" =>
                  /\ calls[t].store /\ calls[t].writes > 0
                  /\ ~calls[t].should_notify
                  /\ response[t] # "ok"
            /\ Finished(t) => tx[t] = EmptyTx)
    /\ [][\A t \in Tasks :
            /\ (pc[t] = "raised" /\ pc'[t] = "done") =>
                  /\ UNCHANGED <<messages, senders, groups>>
                  /\ response'[t] = "error"
            /\ (pc[t] = "teardown" /\ pc'[t] = "done") =>
                  /\ tx[t].messages \subseteq messages'
                  /\ tx[t].senders \subseteq senders'
                  /\ tx[t].groups \subseteq groups'
                  /\ response'[t] = "ok"]_vars

C30_Witness ==
    \E t, u \in Tasks :
        /\ Finished(t) /\ payload[t] = PayloadA /\ outcome[t] = "refresh_failed"
        /\ calls[t].writes > 0 /\ response[t] = "error"
        /\ Finished(u) /\ payload[u] = PayloadDirect /\ outcome[u] = "stored"
        /\ messages = {r \in messages : r.message_id = IdOf(u)}
        /\ RowOf(u) # {}
        /\ groups = {}
        /\ senders = {[jid |-> Alice, push_name |-> Some("Al")]}

====
